---- MODULE Spec2Model ----
(***************************************************************************)
(* Appointment booking: the slot grid of calendar_service.py, the pricing  *)
(* of payment_service.py and the three-step booking wizard of              *)
(* pages/book.py, run by several browser sessions against one shared       *)
(* Google calendar; the email pass of appointment_agent.py and the direct  *)
(* booking page of pages/2_Book_Appointment.py.                            *)
(*                                                                         *)
(* Time is counted in whole minutes since local midnight of "today" (all   *)
(* datetimes of the program are normalised to America/New_York by          *)
(* localize_datetime before they are compared).                            *)
(***************************************************************************)
EXTENDS Integers, Naturals, Sequences, FiniteSets, Bags, TLC

(***************************************************************************)
(* Bounds of the model.                                                    *)
(***************************************************************************)
\* Days the wizard looks ahead (book.py:163 uses 14).
MaxHorizonDays == 0
\* Grid slots that the other events of the calendar leave free at Init.
MaxFree == 1
\* Calendar events the sessions may create in one behaviour.
MaxEvents == 2

\* The browser sessions (one st.session_state each).
Sessions == {"s1", "s2"}

(***************************************************************************)
(* Program constants.                                                      *)
(***************************************************************************)
MinutesPerHour == 60
MinutesPerDay == 24 * MinutesPerHour
business_start_hour == 9
business_end_hour == 17
\* duration_minutes passed by the wizard to get_available_slots
WizardSlotMinutes == 30

\* Python's None for the string-valued session keys
None == "None"
\* Optional values that are not strings are sequences of length 0 or 1.
Nothing == << >>
Some(v) == << v >>

CHECKOUT_URL == "https://checkout.example/session"

\* Values of the form fields tried by the model
Emails == {"", "ann@example.org"}
Names == {"", "Ann"}
Phones == {"555-0100"}
Notes == {""}

\* st.query_params of the page of every session: s1 follows the link mailed
\* by the agent, with a type and the customer's address; s2 opens the page
\* bare and gets the defaults of initialize_booking_state.
QueryParams == [s1 |-> [type |-> "consultation", email |-> "ann@example.org"],
                s2 |-> [type |-> "general", email |-> ""]]

(***************************************************************************)
(* datetime helpers                                                        *)
(***************************************************************************)
\* datetime.hour of a time in minutes
hour(t) == (t % MinutesPerDay) \div MinutesPerHour

\* datetime.isoformat(): the text "<day>T<hh>:<mm>", kept as its fields
isoformat(t) == << t \div MinutesPerDay, hour(t), t % MinutesPerHour >>

\* datetime.fromisoformat(): parse the fields back into a time
fromisoformat(str) == str[1] * MinutesPerDay + str[2] * MinutesPerHour + str[3]

\* datetime.replace(hour=h, minute=0, second=0, microsecond=0)
replace_hour(t, h) == (t \div MinutesPerDay) * MinutesPerDay + h * MinutesPerHour

(***************************************************************************)
(* payment_service.get_appointment_cost, in cents.  The code computes      *)
(* (hourly_rate / 60) * duration in binary floating point and calls        *)
(* round(cost, 2), which rounds to the nearest cent and an exact half cent *)
(* to the even cent.  The float error of the product is far below the      *)
(* distance of the exact quotient to the nearest half cent, so the model   *)
(* rounds the exact quotient rate * duration / 60.                         *)
(***************************************************************************)
base_rates == [consultation |-> 20000, follow_up |-> 15000, general |-> 10000]

\* round(): nearest integer to num / den, a tie to the even one (den > 0)
round_half_even(num, den) ==
    LET floor == num \div den
        twice_rest == 2 * (num % den)
    IN IF twice_rest < den THEN floor
       ELSE IF twice_rest > den THEN floor + 1
       ELSE IF floor % 2 = 0 THEN floor ELSE floor + 1

\* Variant: the cost is cut to whole cents instead of rounded
get_appointment_cost_truncated(appointment_type, duration) ==
    LET hourly_rate == IF appointment_type \in DOMAIN base_rates
                       THEN base_rates[appointment_type]
                       ELSE base_rates["general"]
    IN (hourly_rate * duration) \div MinutesPerHour

\* Variant: an unrecognized category is priced at the first rate of the table
get_appointment_cost_wrong_fallback(appointment_type, duration) ==
    LET hourly_rate == IF appointment_type \in DOMAIN base_rates
                       THEN base_rates[appointment_type]
                       ELSE base_rates["consultation"]
    IN round_half_even(hourly_rate * duration, MinutesPerHour)

get_appointment_cost(appointment_type, duration) ==
    LET hourly_rate == IF appointment_type \in DOMAIN base_rates
                       THEN base_rates[appointment_type]
                       ELSE base_rates["general"]
    IN round_half_even(hourly_rate * duration, MinutesPerHour)

(***************************************************************************)
(* The calendar collaborator.  The calendar is a bag of events; an event   *)
(* is [start, end, attendee], attendee being the session that booked it    *)
(* or "external" for an event that was already on the calendar.            *)
(***************************************************************************)
\* freebusy().query(timeMin, timeMax): the busy periods inside the window
freebusy_query(calendar, timeMin, timeMax) ==
    { [start |-> e.start, end |-> e.end] :
        e \in { x \in BagToSet(calendar) : x.start < timeMax /\ x.end > timeMin } }

\* Variant: the "slot contains the busy period" clause is missing
slot_overlaps_busy_no_containment(current_slot, slot_end, busy) ==
    \/ (current_slot >= busy.start /\ current_slot < busy.end)
    \/ (slot_end > busy.start /\ slot_end <= busy.end)

\* Variant: a slot that starts exactly where a busy period ends is rejected
slot_overlaps_busy_inclusive(current_slot, slot_end, busy) ==
    \/ (current_slot >= busy.start /\ current_slot <= busy.end)
    \/ (slot_end > busy.start /\ slot_end <= busy.end)
    \/ (current_slot <= busy.start /\ slot_end >= busy.end)

\* Variant: the "slot ends inside the busy period" clause is missing
slot_overlaps_busy_no_end_clause(current_slot, slot_end, busy) ==
    \/ (current_slot >= busy.start /\ current_slot < busy.end)
    \/ (current_slot <= busy.start /\ slot_end >= busy.end)

\* The three-clause overlap test of the slot loop
slot_overlaps_busy(current_slot, slot_end, busy) ==
    \/ (current_slot >= busy.start /\ current_slot < busy.end)
    \/ (slot_end > busy.start /\ slot_end <= busy.end)
    \/ (current_slot <= busy.start /\ slot_end >= busy.end)

\* The values current_slot takes at the head of the while loop.  Every pass
\* that does not leave the loop adds duration_minutes to current_slot (the
\* out-of-hours skip and the end of the body); the "move to next day" branch
\* sits behind the out-of-hours skip with the same condition and is never
\* taken.  So the loop visits first + k * duration_minutes for k = 0, 1, ...
\* while that is < end_datetime.
slot_candidates(first, end_datetime, duration_minutes) ==
    LET passes == IF end_datetime <= first THEN 0
                  ELSE (end_datetime - first + duration_minutes - 1) \div duration_minutes
    IN [k \in 1..passes |-> first + (k - 1) * duration_minutes]

\* The body of the while loop for one value of current_slot: TRUE when the
\* slot is appended to available_slots
slot_is_available(current_slot, duration_minutes, busy_periods) ==
    IF hour(current_slot) < business_start_hour \/ hour(current_slot) >= business_end_hour
    THEN FALSE
    ELSE LET slot_end == current_slot + duration_minutes
         IN ~ \E busy \in busy_periods : slot_overlaps_busy(current_slot, slot_end, busy)

\* calendar_service.get_available_slots with a freebusy query that answers
get_available_slots(calendar, start_datetime, end_datetime, duration_minutes) ==
    LET busy_periods == freebusy_query(calendar, start_datetime, end_datetime)
        first == replace_hour(start_datetime, business_start_hour)
        accepted(current_slot) ==
            slot_is_available(current_slot, duration_minutes, busy_periods)
        starts == SelectSeq(slot_candidates(first, end_datetime, duration_minutes), accepted)
    IN [i \in 1..Len(starts) |->
          [start |-> isoformat(starts[i]),
           end |-> isoformat(starts[i] + duration_minutes)]]

\* calendar_service.create_appointment: the event returned (Nothing when the
\* insert raised) and the calendar afterwards
create_appointment(calendar, start_time, duration_minutes, attendee, insert_ok) ==
    LET event == [start |-> start_time, end |-> start_time + duration_minutes,
                  attendee |-> attendee]
    IN IF insert_ok
       THEN [event |-> Some(event), calendar |-> calendar (+) SetToBag({event})]
       ELSE [event |-> Nothing, calendar |-> calendar]

\* gmail_monitor.send_booking_link: True when the message was sent, False
\* when the send raised (the exception is caught inside)
send_booking_link(to, send_ok) == send_ok

\* payment_service.generate_checkout_link: the checkout URL, or None when the
\* payment gateway raised
generate_checkout_link(amount, customer_email, customer_name, gateway_ok) ==
    IF gateway_ok THEN CHECKOUT_URL ELSE None

(***************************************************************************)
(* State                                                                   *)
(***************************************************************************)
VARIABLES
    calendar,       \* the events of the primary calendar (a bag)
    session_state,  \* st.session_state of every session
    display,        \* what the last script run of a session showed
    last_io,        \* the collaborator calls of the last script run of a session
    grid,           \* one call of get_available_slots, statement by statement
    quote,          \* one call of get_appointment_cost
    now,            \* get_current_time_est(): the wall clock of the wizard
    overlap,        \* one evaluation of the overlap test of the slot loop
    mail,           \* the mailbox and one pass of process_new_emails
    direct          \* the direct booking page and its last form submission

vars == << calendar, session_state, display, last_io, grid, quote, now, overlap, mail, direct >>

\* Messages of the page
SHOW_NOTHING == "none"
SHOW_CONFIRMED == "Appointment Confirmed! A confirmation email has been sent"
SHOW_CONFIRM_FAILED == "Failed to confirm appointment"
SHOW_PAYMENT_LINK_FAILED == "Failed to generate payment link"

NoIO == [checkout |-> "none", calendar_write |-> "none", message |-> "none"]

\* Events the sessions created
CreatedEvents == { e \in BagToSet(calendar) : e.attendee \in Sessions }
NumCreated == BagCardinality([e \in CreatedEvents |-> calendar[e]])
CreatedBy(s) ==
    LET mine == { e \in BagToSet(calendar) : e.attendee = s }
    IN BagCardinality([e \in mine |-> calendar[e]])

\* First and last instant of the window the wizard asks for:
\* datetime.combine(start_date, time.min) and
\* datetime.combine(start_date + 14 days, time.max); the cursor of the slot
\* loop only takes whole minutes, so "cursor < 23:59:59.999999" is
\* "cursor < next midnight".
WizardRangeStart == 0
WizardRangeEnd(horizon) == (horizon + 1) * MinutesPerDay

\* The slot list step 1 shows
wizard_available_slots(cal) ==
    get_available_slots(cal, WizardRangeStart, WizardRangeEnd(MaxHorizonDays),
                        WizardSlotMinutes)

\* Minutes between the two ends of a stored slot
slot_duration(slot) == fromisoformat(slot.end) - fromisoformat(slot.start)

\* initialize_booking_state for a fresh session
initialize_booking_state(params) ==
    [booking_step |-> 1,
     selected_slot |-> Nothing,
     customer_details |-> Nothing,
     payment_url |-> None,
     appointment_type |-> params.type,
     customer_email |-> params.email]

\* The calendar before any session books: one other event that leaves the
\* last `free` grid slots of the last day of the window open
InitialCalendar(free) ==
    SetToBag({[start |-> WizardRangeStart,
               end |-> MaxHorizonDays * MinutesPerDay
                       + business_end_hour * MinutesPerHour
                       - free * WizardSlotMinutes,
               attendee |-> "external"]})

\* Value of grid, quote, overlap, mail and direct while that part of the
\* program is not being followed
NoCall == [pc |-> "idle"]

Init ==
    /\ calendar = InitialCalendar(MaxFree)
    /\ session_state = [s \in Sessions |-> initialize_booking_state(QueryParams[s])]
    /\ display = [s \in Sessions |-> SHOW_NOTHING]
    /\ last_io = [s \in Sessions |-> NoIO]
    /\ grid = NoCall
    /\ quote = NoCall
    /\ now = WizardRangeStart
    /\ overlap = NoCall
    /\ mail = NoCall
    /\ direct = NoCall

(***************************************************************************)
(* book.create_confirmed_appointment                                       *)
(***************************************************************************)
\* Variant: "return True" reached also when create_appointment returned None
create_confirmed_appointment_true_without_event(cal, s, slot, customer_details, appointment_type, duration, insert_ok, send_ok) ==
    LET start_time == fromisoformat(slot.start)
        written == create_appointment(cal, start_time, duration, s, insert_ok)
        sent == send_booking_link(s, send_ok)
    IN IF written.event # Nothing
       THEN [result |-> TRUE, calendar |-> written.calendar,
             io |-> [NoIO EXCEPT !.calendar_write = "ok",
                                 !.message = IF sent THEN "sent" ELSE "failed"]]
       ELSE [result |-> TRUE, calendar |-> written.calendar,
             io |-> [NoIO EXCEPT !.calendar_write = "failed"]]

\* Variant: the result of send_booking_link is returned as the result
create_confirmed_appointment_returns_send_result(cal, s, slot, customer_details, appointment_type, duration, insert_ok, send_ok) ==
    LET start_time == fromisoformat(slot.start)
        written == create_appointment(cal, start_time, duration, s, insert_ok)
        sent == send_booking_link(s, send_ok)
    IN IF written.event # Nothing
       THEN [result |-> sent, calendar |-> written.calendar,
             io |-> [NoIO EXCEPT !.calendar_write = "ok",
                                 !.message = IF sent THEN "sent" ELSE "failed"]]
       ELSE [result |-> FALSE, calendar |-> written.calendar,
             io |-> [NoIO EXCEPT !.calendar_write = "failed"]]

\* The function itself: True exactly when create_appointment returned an
\* event; the result of send_booking_link is not looked at
create_confirmed_appointment(cal, s, slot, customer_details, appointment_type, duration, insert_ok, send_ok) ==
    LET start_time == fromisoformat(slot.start)
        written == create_appointment(cal, start_time, duration, s, insert_ok)
        sent == send_booking_link(s, send_ok)
    IN IF written.event # Nothing
       THEN [result |-> TRUE, calendar |-> written.calendar,
             io |-> [NoIO EXCEPT !.calendar_write = "ok",
                                 !.message = IF sent THEN "sent" ELSE "failed"]]
       ELSE [result |-> FALSE, calendar |-> written.calendar,
             io |-> [NoIO EXCEPT !.calendar_write = "failed"]]

(***************************************************************************)
(* The handlers of book.main, one per button                               *)
(***************************************************************************)
\* Step 1: a slot button is pressed
SelectSlot(s) ==
    /\ session_state[s].booking_step = 1
    /\ LET available_slots == wizard_available_slots(calendar)
       IN \E i \in 1..Len(available_slots) :
            session_state' = [session_state EXCEPT
                                ![s].selected_slot = Some(available_slots[i]),
                                ![s].booking_step = 2]
    /\ display' = [display EXCEPT ![s] = SHOW_NOTHING]
    /\ last_io' = [last_io EXCEPT ![s] = NoIO]
    /\ UNCHANGED << calendar, grid, quote, now, overlap, mail, direct >>

\* Variant: the payment step is entered whether or not a link was generated
ProceedToPayment_advances_without_link(s) ==
    /\ session_state[s].booking_step = 2
    /\ \E email \in Emails, name \in Names, phone \in Phones, notes \in Notes,
          gateway_ok \in BOOLEAN :
         LET slot == session_state[s].selected_slot[1]
             duration == slot_duration(slot)
             cost == get_appointment_cost(session_state[s].appointment_type, duration)
             details == [email |-> email, name |-> name, phone |-> phone, notes |-> notes]
             payment_url == generate_checkout_link(cost, email, name, gateway_ok)
         IN /\ session_state' =
                 [session_state EXCEPT ![s].customer_details = Some(details),
                                       ![s].payment_url = payment_url,
                                       ![s].booking_step = 3]
            /\ display' = [display EXCEPT ![s] =
                             IF payment_url # None THEN SHOW_NOTHING
                             ELSE SHOW_PAYMENT_LINK_FAILED]
            /\ last_io' = [last_io EXCEPT ![s] =
                             [NoIO EXCEPT !.checkout =
                                 IF payment_url # None THEN "ok" ELSE "failed"]]
    /\ UNCHANGED << calendar, grid, quote, now, overlap, mail, direct >>

\* Step 2: "Proceed to Payment" is submitted
ProceedToPayment(s) ==
    /\ session_state[s].booking_step = 2
    /\ \E email \in Emails, name \in Names, phone \in Phones, notes \in Notes,
          gateway_ok \in BOOLEAN :
         LET slot == session_state[s].selected_slot[1]
             duration == slot_duration(slot)
             cost == get_appointment_cost(session_state[s].appointment_type, duration)
             details == [email |-> email, name |-> name, phone |-> phone, notes |-> notes]
             payment_url == generate_checkout_link(cost, email, name, gateway_ok)
         IN /\ session_state' =
                 IF payment_url # None
                 THEN [session_state EXCEPT ![s].customer_details = Some(details),
                                            ![s].payment_url = payment_url,
                                            ![s].booking_step = 3]
                 ELSE [session_state EXCEPT ![s].customer_details = Some(details)]
            /\ display' = [display EXCEPT ![s] =
                             IF payment_url # None THEN SHOW_NOTHING
                             ELSE SHOW_PAYMENT_LINK_FAILED]
            /\ last_io' = [last_io EXCEPT ![s] =
                             [NoIO EXCEPT !.checkout =
                                 IF payment_url # None THEN "ok" ELSE "failed"]]
    /\ UNCHANGED << calendar, grid, quote, now, overlap, mail, direct >>

\* Variant: a failed confirmation sends the session back to slot selection
PaymentCompleted_failure_restarts(s) ==
    /\ session_state[s].booking_step = 3
    /\ \E insert_ok \in BOOLEAN, send_ok \in BOOLEAN :
         LET slot == session_state[s].selected_slot[1]
             duration == slot_duration(slot)
             confirmed == create_confirmed_appointment(
                              calendar, s, slot,
                              session_state[s].customer_details[1],
                              session_state[s].appointment_type,
                              duration, insert_ok, send_ok)
         IN /\ insert_ok => NumCreated < MaxEvents
            /\ calendar' = confirmed.calendar
            /\ last_io' = [last_io EXCEPT ![s] = confirmed.io]
            /\ display' = [display EXCEPT ![s] =
                             IF confirmed.result THEN SHOW_CONFIRMED
                             ELSE SHOW_CONFIRM_FAILED]
            /\ session_state' =
                 IF confirmed.result THEN session_state
                 ELSE [session_state EXCEPT ![s].booking_step = 1,
                                            ![s].selected_slot = Nothing,
                                            ![s].payment_url = None]
    /\ UNCHANGED << grid, quote, now, overlap, mail, direct >>

\* Step 3: "I've Completed the Payment" is pressed
PaymentCompleted(s) ==
    /\ session_state[s].booking_step = 3
    /\ \E insert_ok \in BOOLEAN, send_ok \in BOOLEAN :
         LET slot == session_state[s].selected_slot[1]
             duration == slot_duration(slot)
             confirmed == create_confirmed_appointment(
                              calendar, s, slot,
                              session_state[s].customer_details[1],
                              session_state[s].appointment_type,
                              duration, insert_ok, send_ok)
         IN /\ insert_ok => NumCreated < MaxEvents
            /\ calendar' = confirmed.calendar
            /\ last_io' = [last_io EXCEPT ![s] = confirmed.io]
            /\ display' = [display EXCEPT ![s] =
                             IF confirmed.result THEN SHOW_CONFIRMED
                             ELSE SHOW_CONFIRM_FAILED]
    /\ UNCHANGED << session_state, grid, quote, now, overlap, mail, direct >>

\* "Book Another Appointment" is rendered inside the branch of the payment
\* button, so pressing it reruns the script with the payment button unpressed:
\* the reset of the session keys is never executed and the message goes away.
BookAnother(s) ==
    /\ session_state[s].booking_step = 3
    /\ display[s] = SHOW_CONFIRMED
    /\ display' = [display EXCEPT ![s] = SHOW_NOTHING]
    /\ last_io' = [last_io EXCEPT ![s] = NoIO]
    /\ UNCHANGED << calendar, session_state, grid, quote, now, overlap, mail, direct >>

\* Step 3: the "Back" button of the payment step
BackFromPayment(s) ==
    /\ session_state[s].booking_step = 3
    /\ session_state' = [session_state EXCEPT ![s].booking_step = 2]
    /\ display' = [display EXCEPT ![s] = SHOW_NOTHING]
    /\ last_io' = [last_io EXCEPT ![s] = NoIO]
    /\ UNCHANGED << calendar, grid, quote, now, overlap, mail, direct >>

\* Variant: going back asks the payment gateway for a new checkout link
BackMain_requests_checkout(s) ==
    /\ session_state[s].booking_step > 1
    /\ session_state' = [session_state EXCEPT ![s].booking_step = @ - 1]
    /\ display' = [display EXCEPT ![s] = SHOW_NOTHING]
    /\ last_io' = [last_io EXCEPT ![s] = [NoIO EXCEPT !.checkout = "ok"]]
    /\ UNCHANGED << calendar, grid, quote, now, overlap, mail, direct >>

\* The "Back" button (key back_main) below every step after the first
BackMain(s) ==
    /\ session_state[s].booking_step > 1
    /\ session_state' = [session_state EXCEPT ![s].booking_step = @ - 1]
    /\ display' = [display EXCEPT ![s] = SHOW_NOTHING]
    /\ last_io' = [last_io EXCEPT ![s] = NoIO]
    /\ UNCHANGED << calendar, grid, quote, now, overlap, mail, direct >>

Next ==
    \E s \in Sessions :
        \/ SelectSlot(s)
        \/ ProceedToPayment(s)
        \/ PaymentCompleted(s)
        \/ BookAnother(s)
        \/ BackFromPayment(s)
        \/ BackMain(s)

Spec == Init /\ [][Next]_vars

(***************************************************************************)
(* Step 1 of the wizard under a wall clock: get_current_time_est() is read *)
(* at the start of step 1 and only its date is used                        *)
(***************************************************************************)
\* Times of today at which the page may be opened, a quarter of an hour apart
ClockTimes == { m \in 0..(MinutesPerDay - 1) : m % 15 = 0 }

ClockInit ==
    /\ calendar = InitialCalendar(MaxFree)
    /\ session_state = [s \in Sessions |-> initialize_booking_state(QueryParams[s])]
    /\ display = [s \in Sessions |-> SHOW_NOTHING]
    /\ last_io = [s \in Sessions |-> NoIO]
    /\ grid = NoCall
    /\ quote = NoCall
    /\ now \in ClockTimes
    /\ overlap = NoCall
    /\ mail = NoCall
    /\ direct = NoCall

\* The handlers of step 1 and the way back to it
ClockNext ==
    \E s \in Sessions :
        \/ SelectSlot(s)
        \/ BackMain(s)

SpecClock == ClockInit /\ [][ClockNext]_vars

(***************************************************************************)
(* calendar_service.get_available_slots followed statement by statement:   *)
(* the freebusy query, then one step per pass of the while loop, then the  *)
(* return.  The calendar of the call holds only events of other people.    *)
(***************************************************************************)
\* Longest window of a followed call, in days
MaxGridDays == 6

external_event(start, end) == [start |-> start, end |-> end, attendee |-> "external"]

\* Calendars tried: empty; one event on a grid slot; two events that overlap
\* each other, listed latest first; one event strictly inside a grid slot
GridCalendars ==
    { EmptyBag,
      SetToBag({external_event(10 * MinutesPerHour, 10 * MinutesPerHour + 30)}),
      SetToBag({external_event(10 * MinutesPerHour + 30, 11 * MinutesPerHour + 40),
                external_event(10 * MinutesPerHour, 11 * MinutesPerHour)}),
      SetToBag({external_event(10 * MinutesPerHour + 10, 10 * MinutesPerHour + 20)}) }

\* Windows tried: whole days from midnight (time.min to time.max, see
\* WizardRangeEnd); a window that opens at 10:15; a window that closes at
\* noon before it opens at 15:00; an empty window at 10:00; a window from
\* midnight that closes at 09:00
GridRanges ==
    { [start |-> 0, end |-> days * MinutesPerDay] : days \in 1..MaxGridDays }
    \cup { [start |-> 10 * MinutesPerHour + 15, end |-> MinutesPerDay],
           [start |-> 15 * MinutesPerHour, end |-> 12 * MinutesPerHour],
           [start |-> 10 * MinutesPerHour, end |-> 10 * MinutesPerHour],
           [start |-> 0, end |-> business_start_hour * MinutesPerHour] }

\* duration_minutes tried
GridDurations == {30, 45, 50, 60}

\* What get_available_slots hands back: it raises nothing (every exception
\* is caught), so the caller only ever sees a list
returned_list(slots) == [error |-> None, slots |-> slots]

GridInit ==
    /\ calendar \in GridCalendars
    /\ session_state = [s \in Sessions |-> initialize_booking_state(QueryParams[s])]
    /\ display = [s \in Sessions |-> SHOW_NOTHING]
    /\ last_io = [s \in Sessions |-> NoIO]
    /\ quote = NoCall
    /\ now = WizardRangeStart
    /\ overlap = NoCall
    /\ mail = NoCall
    /\ direct = NoCall
    /\ \E range \in GridRanges, duration_minutes \in GridDurations :
         grid = [pc |-> "start",
                 start_datetime |-> range.start,
                 end_datetime |-> range.end,
                 duration_minutes |-> duration_minutes,
                 query |-> "pending",
                 busy_periods |-> {},
                 current_slot |-> 0,
                 available_slots |-> << >>,
                 returned |-> Nothing]

\* The freebusy query and the first value of current_slot; when the query
\* raises, the except branch returns []
GridQuery ==
    /\ grid.pc = "start"
    /\ \E answers \in BOOLEAN :
         grid' = IF answers
                 THEN [grid EXCEPT
                         !.pc = "loop",
                         !.query = "answered",
                         !.busy_periods = freebusy_query(calendar, grid.start_datetime,
                                                         grid.end_datetime),
                         !.current_slot = replace_hour(grid.start_datetime,
                                                       business_start_hour)]
                 ELSE [grid EXCEPT !.pc = "done",
                                   !.query = "raised",
                                   !.returned = Some(returned_list(<< >>))]
    /\ UNCHANGED << calendar, session_state, display, last_io, quote, now, overlap, mail, direct >>

\* Variant: a candidate after closing time moves the cursor to 09:00 of the
\* next day
GridLoopPass_jumps_to_next_morning ==
    /\ grid.pc = "loop"
    /\ grid.current_slot < grid.end_datetime
    /\ LET current_slot == grid.current_slot
           duration_minutes == grid.duration_minutes
           slot_end == current_slot + duration_minutes
           is_available ==
               ~ \E busy \in grid.busy_periods :
                     slot_overlaps_busy(current_slot, slot_end, busy)
       IN grid' =
            IF hour(current_slot) >= business_end_hour
            THEN [grid EXCEPT !.current_slot =
                     replace_hour(current_slot + MinutesPerDay, business_start_hour)]
            ELSE IF hour(current_slot) < business_start_hour
            THEN [grid EXCEPT !.current_slot = current_slot + duration_minutes]
            ELSE [grid EXCEPT
                    !.current_slot = current_slot + duration_minutes,
                    !.available_slots =
                        IF is_available
                        THEN Append(@, [start |-> isoformat(current_slot),
                                        end |-> isoformat(slot_end)])
                        ELSE @]
    /\ UNCHANGED << calendar, session_state, display, last_io, quote, now, overlap, mail, direct >>

\* Variant: the closing hour itself still counts as business hours
GridLoopPass_closing_hour_open ==
    /\ grid.pc = "loop"
    /\ grid.current_slot < grid.end_datetime
    /\ LET current_slot == grid.current_slot
           duration_minutes == grid.duration_minutes
           slot_end == current_slot + duration_minutes
           is_available ==
               ~ \E busy \in grid.busy_periods :
                     slot_overlaps_busy(current_slot, slot_end, busy)
       IN grid' =
            IF hour(current_slot) < business_start_hour
               \/ hour(current_slot) > business_end_hour
            THEN [grid EXCEPT !.current_slot = current_slot + duration_minutes]
            ELSE [grid EXCEPT
                    !.current_slot = current_slot + duration_minutes,
                    !.available_slots =
                        IF is_available
                        THEN Append(@, [start |-> isoformat(current_slot),
                                        end |-> isoformat(slot_end)])
                        ELSE @]
    /\ UNCHANGED << calendar, session_state, display, last_io, quote, now, overlap, mail, direct >>

\* Variant: a candidate outside business hours leaves the cursor where it is
GridLoopPass_skip_without_advance ==
    /\ grid.pc = "loop"
    /\ grid.current_slot < grid.end_datetime
    /\ LET current_slot == grid.current_slot
           duration_minutes == grid.duration_minutes
           slot_end == current_slot + duration_minutes
           is_available ==
               ~ \E busy \in grid.busy_periods :
                     slot_overlaps_busy(current_slot, slot_end, busy)
       IN grid' =
            IF hour(current_slot) < business_start_hour
               \/ hour(current_slot) >= business_end_hour
            THEN grid
            ELSE [grid EXCEPT
                    !.current_slot = current_slot + duration_minutes,
                    !.available_slots =
                        IF is_available
                        THEN Append(@, [start |-> isoformat(current_slot),
                                        end |-> isoformat(slot_end)])
                        ELSE @]
    /\ UNCHANGED << calendar, session_state, display, last_io, quote, now, overlap, mail, direct >>

\* One pass of the while loop
GridLoopPass ==
    /\ grid.pc = "loop"
    /\ grid.current_slot < grid.end_datetime
    /\ LET current_slot == grid.current_slot
           duration_minutes == grid.duration_minutes
           slot_end == current_slot + duration_minutes
           is_available ==
               ~ \E busy \in grid.busy_periods :
                     slot_overlaps_busy(current_slot, slot_end, busy)
       IN grid' =
            IF hour(current_slot) < business_start_hour
               \/ hour(current_slot) >= business_end_hour
            THEN [grid EXCEPT !.current_slot = current_slot + duration_minutes]
            ELSE IF hour(current_slot) >= business_end_hour
            THEN [grid EXCEPT !.current_slot =
                     replace_hour(current_slot + MinutesPerDay, business_start_hour)]
            ELSE [grid EXCEPT
                    !.current_slot = current_slot + duration_minutes,
                    !.available_slots =
                        IF is_available
                        THEN Append(@, [start |-> isoformat(current_slot),
                                        end |-> isoformat(slot_end)])
                        ELSE @]
    /\ UNCHANGED << calendar, session_state, display, last_io, quote, now, overlap, mail, direct >>

\* The loop condition fails: return available_slots
GridReturn ==
    /\ grid.pc = "loop"
    /\ ~ (grid.current_slot < grid.end_datetime)
    /\ grid' = [grid EXCEPT !.pc = "done",
                            !.returned = Some(returned_list(grid.available_slots))]
    /\ UNCHANGED << calendar, session_state, display, last_io, quote, now, overlap, mail, direct >>

GridNext ==
    \/ GridQuery
    \/ GridLoopPass
    \/ GridReturn

SpecGrid == GridInit /\ [][GridNext]_vars

\* The call is sequential code: once entered, every statement that can run
\* does run
SpecGridFair == SpecGrid /\ WF_vars(GridNext)

(***************************************************************************)
(* The overlap test of the slot loop (calendar_service.py:99-101) applied  *)
(* once to a slot and a busy period                                        *)
(***************************************************************************)
\* Latest instant of the slots and busy periods tried
MaxOverlapTime == 5

\* Intervals [start, end) with start < end
OverlapIntervals ==
    { interval \in [start : 0..MaxOverlapTime, end : 0..MaxOverlapTime] :
        interval.start < interval.end }

OverlapInit ==
    /\ calendar = EmptyBag
    /\ session_state = [s \in Sessions |-> initialize_booking_state(QueryParams[s])]
    /\ display = [s \in Sessions |-> SHOW_NOTHING]
    /\ last_io = [s \in Sessions |-> NoIO]
    /\ grid = NoCall
    /\ quote = NoCall
    /\ now = WizardRangeStart
    /\ mail = NoCall
    /\ direct = NoCall
    /\ \E slot \in OverlapIntervals, busy \in OverlapIntervals :
         overlap = [pc |-> "call", current_slot |-> slot.start, slot_end |-> slot.end,
                    busy |-> busy, rejected |-> FALSE]

OverlapCall ==
    /\ overlap.pc = "call"
    /\ overlap' = [overlap EXCEPT
                     !.pc = "done",
                     !.rejected = slot_overlaps_busy(overlap.current_slot,
                                                     overlap.slot_end, overlap.busy)]
    /\ UNCHANGED << calendar, session_state, display, last_io, grid, quote, now, mail, direct >>

OverlapNext == OverlapCall

SpecOverlap == OverlapInit /\ [][OverlapNext]_vars

(***************************************************************************)
(* payment_service.get_appointment_cost called once                        *)
(***************************************************************************)
\* Longest duration quoted, in minutes
MaxQuoteMinutes == 61

\* appointment_type values tried; the last is not a key of base_rates
QuoteCategories == {"consultation", "follow_up", "general", "unknown_category"}

QuoteInit ==
    /\ calendar = EmptyBag
    /\ session_state = [s \in Sessions |-> initialize_booking_state(QueryParams[s])]
    /\ display = [s \in Sessions |-> SHOW_NOTHING]
    /\ last_io = [s \in Sessions |-> NoIO]
    /\ grid = NoCall
    /\ now = WizardRangeStart
    /\ overlap = NoCall
    /\ mail = NoCall
    /\ direct = NoCall
    /\ \E appointment_type \in QuoteCategories, duration \in 0..MaxQuoteMinutes :
         quote = [pc |-> "call", appointment_type |-> appointment_type,
                  duration |-> duration, cost |-> 0]

QuoteCall ==
    /\ quote.pc = "call"
    /\ quote' = [quote EXCEPT
                   !.pc = "done",
                   !.cost = get_appointment_cost(quote.appointment_type, quote.duration)]
    /\ UNCHANGED << calendar, session_state, display, last_io, grid, now, overlap, mail, direct >>

QuoteNext == QuoteCall

SpecQuote == QuoteInit /\ [][QuoteNext]_vars

(***************************************************************************)
(* appointment_agent.process_new_emails: one pass over the unread messages *)
(* of the mailbox, one loop iteration per step.  The language model is an  *)
(* oracle: what it makes of a message is the message's is_appointment.     *)
(***************************************************************************)
\* Passes of process_new_emails in one behaviour
MaxPasses == 2

\* The messages of the mailbox, in the order messages().list returns them
MailOrder == << "m1", "m2" >>
MailIds == { MailOrder[i] : i \in 1..Len(MailOrder) }

\* Sender addresses extract_email_headers may find; "" is none
Senders == {"", "pat@example.org"}

\* What agent_executor.invoke may do: give an output, give something that is
\* not a dict with an 'output', or raise
AgentResults == {"output", "invalid", "raised"}

\* gmail_monitor.mark_as_read: the UNREAD label is removed unless the call
\* fails, and a failure is swallowed
mark_as_read(unread, modify_ok) == unread /\ ~ modify_ok

\* Variant: the message is marked read before the reply is attempted
process_email_marks_before_send(email, agent_result, tool_send_ok) ==
    IF email.sender = ""
    THEN [action |-> "error", sends |-> 0, marks |-> FALSE]
    ELSE IF agent_result = "raised" \/ agent_result = "invalid"
    THEN [action |-> "error", sends |-> 0, marks |-> FALSE]
    ELSE IF email.is_appointment
    THEN IF tool_send_ok
         THEN [action |-> "sent_link", sends |-> 1, marks |-> TRUE]
         ELSE [action |-> "error", sends |-> 0, marks |-> TRUE]
    ELSE [action |-> "no_action", sends |-> 0, marks |-> FALSE]

\* process_email: the response, the replies it sent itself through
\* SendBookingLinkTool._run, and whether it called mark_as_read
process_email(email, agent_result, tool_send_ok) ==
    IF email.sender = ""
    THEN [action |-> "error", sends |-> 0, marks |-> FALSE]
    ELSE IF agent_result = "raised" \/ agent_result = "invalid"
    THEN [action |-> "error", sends |-> 0, marks |-> FALSE]
    ELSE IF email.is_appointment
    THEN IF tool_send_ok
         THEN [action |-> "sent_link", sends |-> 1, marks |-> TRUE]
         ELSE [action |-> "error", sends |-> 0, marks |-> FALSE]
    ELSE [action |-> "no_action", sends |-> 0, marks |-> FALSE]

\* check_new_emails with the query is:unread; [] when the listing fails
check_new_emails(inbox, list_ok) ==
    IF list_ok
    THEN SelectSeq(MailOrder, LAMBDA id : inbox[id].unread)
    ELSE << >>

MailInit ==
    /\ calendar = EmptyBag
    /\ session_state = [s \in Sessions |-> initialize_booking_state(QueryParams[s])]
    /\ display = [s \in Sessions |-> SHOW_NOTHING]
    /\ last_io = [s \in Sessions |-> NoIO]
    /\ grid = NoCall
    /\ quote = NoCall
    /\ now = WizardRangeStart
    /\ overlap = NoCall
    /\ direct = NoCall
    /\ \E inbox \in [MailIds -> [unread : {TRUE}, sender : Senders,
                                 is_appointment : BOOLEAN]] :
         mail = [pc |-> "idle",
                 inbox |-> inbox,
                 new_emails |-> << >>,
                 listed |-> FALSE,
                 replies |-> [id \in MailIds |-> 0],
                 outcome |-> [id \in MailIds |-> "none"],
                 processed_count |-> 0,
                 passes |-> 0]

\* process_new_emails is entered: the unread messages are listed
StartPass ==
    /\ mail.pc = "idle"
    /\ mail.passes < MaxPasses
    /\ \E list_ok \in BOOLEAN :
         LET new_emails == check_new_emails(mail.inbox, list_ok)
         IN mail' = [mail EXCEPT
                       !.pc = IF new_emails = << >> THEN "idle" ELSE "loop",
                       !.new_emails = new_emails,
                       !.listed = list_ok,
                       !.replies = [id \in MailIds |-> 0],
                       !.processed_count = 0,
                       !.passes = @ + 1]
    /\ UNCHANGED << calendar, session_state, display, last_io, grid, quote, now, overlap, direct >>

\* One iteration of the loop over new_emails: agent(email), then the branch
\* on result['action']
ProcessEmail ==
    /\ mail.pc = "loop"
    /\ mail.new_emails # << >>
    /\ \E agent_result \in AgentResults, tool_send_ok \in BOOLEAN,
          loop_send_ok \in BOOLEAN, modify_ok \in BOOLEAN :
         LET id == Head(mail.new_emails)
             email == mail.inbox[id]
             result == process_email(email, agent_result, tool_send_ok)
             loop_sends == IF result.action = "sent_link" /\ loop_send_ok THEN 1 ELSE 0
             loop_marks == \/ result.action = "sent_link" /\ loop_send_ok
                           \/ result.action = "no_action"
             unread == IF result.marks \/ loop_marks
                       THEN mark_as_read(email.unread, modify_ok)
                       ELSE email.unread
         IN mail' = [mail EXCEPT
                       !.new_emails = Tail(@),
                       !.inbox[id].unread = unread,
                       !.replies[id] = @ + result.sends + loop_sends,
                       !.outcome[id] = result.action,
                       !.processed_count = @ + loop_sends]
    /\ UNCHANGED << calendar, session_state, display, last_io, grid, quote, now, overlap, direct >>

\* The loop is over: return processed_count
EndPass ==
    /\ mail.pc = "loop"
    /\ mail.new_emails = << >>
    /\ mail' = [mail EXCEPT !.pc = "idle"]
    /\ UNCHANGED << calendar, session_state, display, last_io, grid, quote, now, overlap, direct >>

MailNext ==
    \/ StartPass
    \/ ProcessEmail
    \/ EndPass

SpecMail == MailInit /\ [][MailNext]_vars

(***************************************************************************)
(* pages/2_Book_Appointment.py: the direct booking page, one submission of *)
(* its form.  The page is followed with a calendar service in its session. *)
(***************************************************************************)
\* Days after today that the date input is tried with (the page allows 30)
MaxDirectDays == 0

\* Options of the duration select box
DirectDurations == {30, 60}

\* Messages of the direct page
DIRECT_NOTHING == "none"
DIRECT_REQUIRED == "Please fill in all required fields and accept the terms"
DIRECT_SUCCESS == "Appointment booked successfully!"
DIRECT_FAILED == "Failed to book appointment"

\* A datetime as a Python value: the direct page passes one where
\* create_appointment expects duration_minutes; the wizard passes an int,
\* for which create_appointment above stands
datetime_value(t) == [type |-> "datetime", value |-> t]

\* timedelta(minutes=v) takes a number; a datetime raises TypeError
timedelta_accepts(v) == v.type \in {"int", "float"}

\* create_appointment called with any Python value as duration_minutes: the
\* TypeError of timedelta is raised inside the try and turned into None
create_appointment_dynamic(cal, start_time, duration_minutes, attendee, insert_ok) ==
    IF timedelta_accepts(duration_minutes)
    THEN create_appointment(cal, start_time, duration_minutes.value, attendee, insert_ok)
    ELSE [event |-> Nothing, calendar |-> cal]

DirectInit ==
    /\ calendar \in GridCalendars
    /\ session_state = [s \in Sessions |-> initialize_booking_state(QueryParams[s])]
    /\ display = [s \in Sessions |-> SHOW_NOTHING]
    /\ last_io = [s \in Sessions |-> NoIO]
    /\ grid = NoCall
    /\ quote = NoCall
    /\ now = WizardRangeStart
    /\ overlap = NoCall
    /\ mail = NoCall
    /\ direct = [pc |-> "form", slot |-> Nothing, name |-> "", email |-> "",
                 agree |-> FALSE, calendar_accepts |-> FALSE,
                 display |-> DIRECT_NOTHING]

\* "Book Appointment" is submitted for a date, a duration and one of the
\* slots listed for them
DirectSubmit ==
    /\ direct.pc = "form"
    /\ \E selected_date \in 0..MaxDirectDays, duration \in DirectDurations,
          name \in Names, email \in Emails, agree \in BOOLEAN,
          insert_ok \in BOOLEAN :
         LET available_slots ==
                 get_available_slots(calendar, selected_date * MinutesPerDay,
                                     (selected_date + 1) * MinutesPerDay, duration)
         IN \E i \in 1..Len(available_slots) :
              LET slot_data == available_slots[i]
                  appointment ==
                      create_appointment_dynamic(
                          calendar, fromisoformat(slot_data.start),
                          datetime_value(fromisoformat(slot_data.end)),
                          "direct", insert_ok)
                  filled == name # "" /\ email # "" /\ agree
              IN /\ calendar' = IF filled THEN appointment.calendar ELSE calendar
                 /\ direct' = [pc |-> "submitted", slot |-> Some(slot_data),
                               name |-> name, email |-> email, agree |-> agree,
                               calendar_accepts |-> insert_ok,
                               display |->
                                   IF ~ filled THEN DIRECT_REQUIRED
                                   ELSE IF appointment.event # Nothing
                                   THEN DIRECT_SUCCESS
                                   ELSE DIRECT_FAILED]
    /\ UNCHANGED << session_state, display, last_io, grid, quote, now, overlap, mail >>

DirectNext == DirectSubmit

SpecDirect == DirectInit /\ [][DirectNext]_vars

(***************************************************************************)
(* Properties                                                              *)
(***************************************************************************)
\* Error kinds of the specification that no message of the page stands for
SlotNoLongerAvailable == "SlotNoLongerAvailable"
ConfirmationMessageFailed == "ConfirmationMessageFailed"

\* Two events share some instant
EventsIntersect(e1, e2) == e1.start < e2.end /\ e2.start < e1.end

\* The event session s writes for the slot it holds
EventOfSelectedSlot(s) ==
    LET slot == session_state[s].selected_slot[1]
    IN [start |-> fromisoformat(slot.start), end |-> fromisoformat(slot.end),
        attendee |-> s]

\* The slot session s holds intersects a busy period of the calendar
SelectedSlotIsBusy(s) ==
    LET slot == session_state[s].selected_slot[1]
        slot_start == fromisoformat(slot.start)
        slot_end == fromisoformat(slot.end)
    IN \E busy \in freebusy_query(calendar, slot_start, slot_end) :
           slot_overlaps_busy(slot_start, slot_end, busy)

\* C1: no two calendar events created by confirmation occupy overlapping
\* time intervals, whatever the interleaving of the booking sessions.
C1_NoOverlappingAppointments ==
    /\ \A e \in CreatedEvents : CopiesIn(e, calendar) = 1
    /\ \A e1, e2 \in CreatedEvents : e1 # e2 => ~ EventsIntersect(e1, e2)

\* C2: a confirmation whose slot overlaps a busy interval at the moment of
\* confirm fails with SlotNoLongerAvailable and writes no calendar event.
C2_ConfirmRevalidatesAvailability ==
    [][\A s \in Sessions :
          (PaymentCompleted(s) /\ SelectedSlotIsBusy(s))
              => (calendar' = calendar /\ display'[s] = SlotNoLongerAvailable)]_vars

\* C3: a session shows the "Appointment Confirmed" result only when the
\* calendar write of that run returned a created event, which is then on the
\* calendar; a failed calendar write never shows it.
C3_DoneOnlyAfterCalendarWrite ==
    \A s \in Sessions :
        /\ display[s] = SHOW_CONFIRMED
              => /\ last_io[s].calendar_write = "ok"
                 /\ BagIn(EventOfSelectedSlot(s), calendar)
        /\ last_io[s].calendar_write = "failed" => display[s] = SHOW_CONFIRM_FAILED

C3_Witness ==
    \E s \in Sessions :
        display[s] = SHOW_CONFIRMED /\ BagIn(EventOfSelectedSlot(s), calendar)

\* C4: once a session's confirmation has succeeded (its event is on the
\* calendar), a further "payment completed" signal of that session creates no
\* calendar event and sends no confirmation message.
C4_CreatedOncePerSession ==
    [][\A s \in Sessions :
          (PaymentCompleted(s) /\ CreatedBy(s) >= 1)
              => (calendar' = calendar /\ last_io'[s].message # "sent")]_vars

\* C5: when the confirmation of the payment step fails, the session stays in
\* the payment step and its slot, customer details, appointment category and
\* payment reference are unchanged.
C5_FailedConfirmKeepsSession ==
    [][\A s \in Sessions :
          (PaymentCompleted(s) /\ display'[s] = SHOW_CONFIRM_FAILED)
              => /\ session_state'[s].booking_step = 3
                 /\ session_state'[s].selected_slot = session_state[s].selected_slot
                 /\ session_state'[s].customer_details = session_state[s].customer_details
                 /\ session_state'[s].appointment_type = session_state[s].appointment_type
                 /\ session_state'[s].payment_url = session_state[s].payment_url]_vars

C5_Witness ==
    \E s \in Sessions :
        /\ display[s] = SHOW_CONFIRM_FAILED
        /\ last_io[s].calendar_write = "failed"
        /\ session_state[s].booking_step = 3
        /\ session_state[s].payment_url = CHECKOUT_URL

\* C6: a payment-checkout request is made, and the payment step entered, only
\* with customer details whose name and email are non-empty.
C6_DetailsValidatedBeforePayment ==
    \A s \in Sessions :
        (last_io[s].checkout # "none" \/ session_state[s].booking_step = 3)
            => /\ session_state[s].customer_details # Nothing
               /\ session_state[s].customer_details[1].name # ""
               /\ session_state[s].customer_details[1].email # ""

\* C7: going back from the payment step to the details step leaves the
\* payment reference absent and the selected slot and customer details
\* unchanged.
C7_BackDiscardsPaymentReference ==
    [][\A s \in Sessions :
          (session_state[s].booking_step = 3 /\ session_state'[s].booking_step = 2)
              => /\ session_state'[s].payment_url = None
                 /\ session_state'[s].selected_slot = session_state[s].selected_slot
                 /\ session_state'[s].customer_details = session_state[s].customer_details]_vars

\* C8: when the payment collaborator returns no checkout link, the session
\* stays in the details step, the payment-link error is shown, the selected
\* slot is unchanged and the payment reference is absent.
C8_PaymentLinkFailureStaysInDetails ==
    [][\A s \in Sessions :
          (ProceedToPayment(s) /\ last_io'[s].checkout = "failed")
              => /\ session_state'[s].booking_step = 2
                 /\ display'[s] = SHOW_PAYMENT_LINK_FAILED
                 /\ session_state'[s].selected_slot = session_state[s].selected_slot
                 /\ session_state'[s].payment_url = None]_vars

\* C9: when the calendar write succeeds and the confirmation message fails to
\* send, the confirmation still succeeds (the confirmed result is shown), the
\* event is added to the calendar, and no step ever removes an event.
C9_MessageFailureKeepsBooking ==
    [][/\ \A s \in Sessions :
             (/\ PaymentCompleted(s)
              /\ last_io'[s].calendar_write = "ok"
              /\ last_io'[s].message = "failed")
                 => /\ display'[s] = SHOW_CONFIRMED
                    /\ CopiesIn(EventOfSelectedSlot(s), calendar')
                         = CopiesIn(EventOfSelectedSlot(s), calendar) + 1
                    /\ session_state'[s].booking_step = 3
       /\ \A e \in BagToSet(calendar) : CopiesIn(e, calendar') >= CopiesIn(e, calendar)]_vars

C9_Witness ==
    \E s \in Sessions :
        /\ last_io[s].calendar_write = "ok"
        /\ last_io[s].message = "failed"
        /\ display[s] = SHOW_CONFIRMED
        /\ BagIn(EventOfSelectedSlot(s), calendar)

\* C10: when the calendar write succeeds and the confirmation message fails,
\* the page reports a ConfirmationMessageFailed warning and does not tell the
\* user that a confirmation email was sent.
C10_MessageFailureReported ==
    \A s \in Sessions :
        (last_io[s].calendar_write = "ok" /\ last_io[s].message = "failed")
            => /\ display[s] = ConfirmationMessageFailed
               /\ display[s] # SHOW_CONFIRMED

(***************************************************************************)
(* Properties of the slot computation (SpecGrid)                           *)
(***************************************************************************)
\* Error kind of the specification that get_available_slots never yields
CalendarUnavailable == "CalendarUnavailable"

\* The call has finished; ReturnedSlots is the list the caller receives
GridDone == grid.pc = "done"
ReturnedSlots == grid.returned[1].slots
ReturnedStarts == { fromisoformat(ReturnedSlots[i].start) : i \in 1..Len(ReturnedSlots) }

InBusinessHours(t) == business_start_hour <= hour(t) /\ hour(t) < business_end_hour

\* The call of scenario A/B: one full day from midnight, 30-minute slots
OneDayHalfHourCall ==
    /\ grid.start_datetime = 0
    /\ grid.end_datetime = MinutesPerDay
    /\ grid.duration_minutes = 30
    /\ grid.query = "answered"

\* Starts of the 9-17 half-hour grid of day 0
HalfHourGridStarts ==
    { business_start_hour * MinutesPerHour + 30 * k :
        k \in 0..(2 * (business_end_hour - business_start_hour) - 1) }

\* C11: for every duration and range, each returned slot has both its start
\* hour and the hour of (end - 1 minute) within [9, 17).
C11_SlotsEntirelyInBusinessHours ==
    GridDone =>
        \A i \in 1..Len(ReturnedSlots) :
            /\ InBusinessHours(fromisoformat(ReturnedSlots[i].start))
            /\ InBusinessHours(fromisoformat(ReturnedSlots[i].end) - 1)

\* C12: no returned slot [s, e) meets any reported busy interval b under any
\* of the three clauses b.start <= s < b.end, b.start < e <= b.end,
\* s <= b.start and e >= b.end.
C12_SlotsAvoidBusyIntervals ==
    GridDone =>
        \A i \in 1..Len(ReturnedSlots) : \A b \in grid.busy_periods :
            LET s == fromisoformat(ReturnedSlots[i].start)
                e == fromisoformat(ReturnedSlots[i].end)
            IN /\ ~ (b.start <= s /\ s < b.end)
               /\ ~ (b.start < e /\ e <= b.end)
               /\ ~ (s <= b.start /\ e >= b.end)

\* Two busy intervals that overlap each other were reported, slots were
\* returned, and the 10:00 candidate of day 0 was rejected
C12_Witness ==
    /\ GridDone
    /\ Cardinality(grid.busy_periods) = 2
    /\ \E b1, b2 \in grid.busy_periods :
          b1 # b2 /\ b1.start < b2.end /\ b2.start < b1.end
    /\ Len(ReturnedSlots) > 0
    /\ 9 * MinutesPerHour \in ReturnedStarts
    /\ 10 * MinutesPerHour \notin ReturnedStarts

\* C13: when range_end <= range_start the computation returns an empty
\* sequence.
C13_EmptyRangeGivesNoSlots ==
    (GridDone /\ grid.end_datetime <= grid.start_datetime) =>
        ReturnedSlots = << >>

\* C14: every candidate start considered equals range_start + k * duration
\* for some integer k >= 0.
C14_CandidatesAlignedToRangeStart ==
    grid.pc = "loop" =>
        /\ grid.current_slot >= grid.start_datetime
        /\ (grid.current_slot - grid.start_datetime) % grid.duration_minutes = 0

\* C15: when the busy-interval query fails the computation surfaces
\* CalendarUnavailable and emits no slots, so that the caller can tell the
\* failure from a successful query without free slot.
C15_QueryFailureSurfaced ==
    (GridDone /\ grid.query = "raised") =>
        /\ grid.returned[1].error = CalendarUnavailable
        /\ ReturnedSlots = << >>

\* C16: one full day, duration 30, no busy interval: exactly 16 slots, the
\* first at 09:00, the last at 16:30, consecutive starts 30 minutes apart.
C16_FullDayHasSixteenSlots ==
    (GridDone /\ OneDayHalfHourCall /\ grid.busy_periods = {}) =>
        /\ Len(ReturnedSlots) = 16
        /\ fromisoformat(ReturnedSlots[1].start) = 9 * MinutesPerHour
        /\ fromisoformat(ReturnedSlots[16].start) = 16 * MinutesPerHour + 30
        /\ \A i \in 1..15 :
              fromisoformat(ReturnedSlots[i + 1].start)
                  = fromisoformat(ReturnedSlots[i].start) + 30

C16_Witness ==
    /\ GridDone /\ OneDayHalfHourCall /\ grid.busy_periods = {}
    /\ Len(ReturnedSlots) = 16

\* C17: the same call with the single busy interval 10:00-10:30: the 10:00
\* slot is absent, 09:30, 10:30 and every other slot of the grid is present
\* (15 slots).
C17_ExactBusySlotRemoved ==
    (/\ GridDone /\ OneDayHalfHourCall
     /\ grid.busy_periods = {[start |-> 10 * MinutesPerHour,
                              end |-> 10 * MinutesPerHour + 30]}) =>
        /\ Len(ReturnedSlots) = 15
        /\ ReturnedStarts = HalfHourGridStarts \ {10 * MinutesPerHour}

C17_Witness ==
    /\ GridDone /\ OneDayHalfHourCall
    /\ grid.busy_periods = {[start |-> 10 * MinutesPerHour,
                             end |-> 10 * MinutesPerHour + 30]}
    /\ 10 * MinutesPerHour \notin ReturnedStarts
    /\ 10 * MinutesPerHour + 30 \in ReturnedStarts

\* Day of the range start, and the returned slots that start at 09:00 sharp
\* on a later day
GridStartDay == grid.start_datetime \div MinutesPerDay
LaterNineOClockStarts ==
    { t \in ReturnedStarts :
        /\ t \div MinutesPerDay > GridStartDay
        /\ t % MinutesPerDay = business_start_hour * MinutesPerHour }

\* A loop pass on a candidate outside business hours adds nothing and moves
\* the cursor by exactly the duration
OutOfHoursPassAdvancesByDuration ==
    (/\ grid.pc = "loop" /\ grid'.pc = "loop"
     /\ ~ InBusinessHours(grid.current_slot)) =>
        /\ grid'.current_slot = grid.current_slot + grid.duration_minutes
        /\ grid'.available_slots = grid.available_slots

RateOfCategory(category) ==
    CASE category = "consultation" -> 20000
      [] category = "follow_up" -> 15000
      [] OTHER -> 10000

\* C18: the quote is the hourly rate of the category (consultation 200,
\* follow_up 150, general 100, anything else priced as general) for one
\* hour; quote(consultation, 60) = 200.00, quote(unrecognized, 30) = 50.00.
C18_RateLookupWithGeneralFallback ==
    quote.pc = "done" =>
        /\ quote.duration = 60 =>
              quote.cost = RateOfCategory(quote.appointment_type)
        /\ (quote.appointment_type = "consultation" /\ quote.duration = 60) =>
              quote.cost = 20000
        /\ (quote.appointment_type \notin {"consultation", "follow_up", "general"}
            /\ quote.duration = 30) =>
              quote.cost = 5000

C18_Witness ==
    /\ quote.pc = "done"
    /\ quote.appointment_type = "unknown_category"
    /\ quote.duration = 30
    /\ quote.cost = 5000

\* C19: for every category and non-negative duration the quote in cents is
\* hourly_rate_cents * duration / 60 rounded to the nearest cent, an exact
\* half cent rounded up.
C19_QuoteRoundedHalfUp ==
    quote.pc = "done" =>
        LET exact60 == RateOfCategory(quote.appointment_type) * quote.duration
        IN /\ 60 * quote.cost - exact60 <= 30
           /\ 60 * quote.cost - exact60 > -30

\* A quote that is not a whole number of cents before rounding and is
\* rounded upwards
C19_Witness ==
    /\ quote.pc = "done"
    /\ 60 * quote.cost > RateOfCategory(quote.appointment_type) * quote.duration

(***************************************************************************)
(* Further properties of the booking wizard (Spec)                         *)
(***************************************************************************)
\* The step of the specification a session is in: Done while the page shows
\* the confirmation, otherwise the step booking_step stands for
StepOf(s) ==
    IF display[s] = SHOW_CONFIRMED THEN "Done"
    ELSE CASE session_state[s].booking_step = 1 -> "SelectSlot"
           [] session_state[s].booking_step = 2 -> "ConfirmDetails"
           [] OTHER -> "Payment"

AllowedStepChanges ==
    { << "SelectSlot", "ConfirmDetails" >>, << "ConfirmDetails", "Payment" >>,
      << "Payment", "Done" >>, << "ConfirmDetails", "SelectSlot" >>,
      << "Payment", "ConfirmDetails" >> }

\* C21: every change of a session's step is SelectSlot->ConfirmDetails,
\* ConfirmDetails->Payment, Payment->Done, ConfirmDetails->SelectSlot or
\* Payment->ConfirmDetails.
C21_OnlyAdjacentStepChanges ==
    [][\A s \in Sessions :
          StepOf(s)' # StepOf(s) => << StepOf(s), StepOf(s)' >> \in AllowedStepChanges
      ]_vars

WizardStateInvariant ==
    \A s \in Sessions :
        /\ session_state[s].booking_step \in {1, 2, 3}
        /\ session_state[s].booking_step >= 2 =>
              session_state[s].selected_slot # Nothing
        /\ session_state[s].booking_step = 3 =>
              /\ session_state[s].payment_url \notin {None, ""}
              /\ session_state[s].customer_details # Nothing

\* C28: booking_step is 1, 2 or 3; from step 2 on selected_slot is a slot of
\* the list that was shown when it was chosen; at step 3 payment_url is a
\* non-empty checkout URL and customer_details is stored.
C28_WizardStateWellFormed ==
    [][/\ WizardStateInvariant
       /\ WizardStateInvariant'
       /\ \A s \in Sessions :
             session_state'[s].selected_slot # session_state[s].selected_slot =>
                /\ session_state[s].booking_step = 1
                /\ session_state'[s].booking_step = 2
                /\ \E i \in 1..Len(wizard_available_slots(calendar)) :
                      session_state'[s].selected_slot
                          = Some(wizard_available_slots(calendar)[i])
      ]_vars

\* A session at the payment step with slot, details and link, while the
\* slot it holds has left the list (it is booked)
C28_Witness ==
    \E s \in Sessions :
        /\ session_state[s].booking_step = 3
        /\ session_state[s].payment_url = CHECKOUT_URL
        /\ session_state[s].customer_details # Nothing
        /\ session_state[s].selected_slot # Nothing
        /\ \A i \in 1..Len(wizard_available_slots(calendar)) :
              wizard_available_slots(calendar)[i] # session_state[s].selected_slot[1]

(***************************************************************************)
(* Further properties of the slot computation                              *)
(***************************************************************************)
\* C23: for a slot [s, e) and a busy interval [b0, b1), both non-empty, the
\* three-clause test is true exactly when s < b1 and b0 < e; a slot that
\* ends at b0 or starts at b1 is accepted.
C23_OverlapTestIsIntersection ==
    overlap.pc = "done" =>
        /\ overlap.rejected <=>
              (overlap.current_slot < overlap.busy.end
               /\ overlap.busy.start < overlap.slot_end)
        /\ (overlap.slot_end = overlap.busy.start
            \/ overlap.current_slot = overlap.busy.end) => ~ overlap.rejected

\* A slot that ends where the busy interval starts was tested and accepted
C23_Witness ==
    /\ overlap.pc = "done"
    /\ overlap.slot_end = overlap.busy.start
    /\ ~ overlap.rejected

\* C24: every returned slot lies inside the requested range.
C24_SlotsInsideRequestedRange ==
    GridDone =>
        \A i \in 1..Len(ReturnedSlots) :
            /\ fromisoformat(ReturnedSlots[i].start) >= grid.start_datetime
            /\ fromisoformat(ReturnedSlots[i].end) <= grid.end_datetime

\* C29: the slot loop terminates, and the returned slots are in strictly
\* ascending order of start time, so without duplicates.
C29_LoopTerminatesAscending ==
    /\ <>GridDone
    /\ [](GridDone =>
            \A i, j \in 1..Len(ReturnedSlots) :
                i < j => fromisoformat(ReturnedSlots[i].start)
                           < fromisoformat(ReturnedSlots[j].start))

\* A call over more than one day has returned slots of two different days
C29_Witness ==
    /\ GridDone
    /\ grid.query = "answered"
    /\ \E t1, t2 \in ReturnedStarts : t1 \div MinutesPerDay < t2 \div MinutesPerDay

(***************************************************************************)
(* Property of step 1 under the wall clock (SpecClock)                     *)
(***************************************************************************)
\* C25: at step 1, whatever the time of day, no slot offered for selection
\* starts before the current time.
C25_NoPastSlotOffered ==
    \A s \in Sessions :
        session_state[s].booking_step = 1 =>
            \A i \in 1..Len(wizard_available_slots(calendar)) :
                fromisoformat(wizard_available_slots(calendar)[i].start) >= now

(***************************************************************************)
(* Properties of the email pass (SpecMail)                                 *)
(***************************************************************************)
\* C26: in one pass, at most one booking-link reply is sent for an unread
\* message classified as an appointment request, counting the send inside
\* process_email and the send of the process_new_emails loop.
C26_AtMostOneReplyPerRequest ==
    \A id \in MailIds :
        mail.inbox[id].is_appointment => mail.replies[id] <= 1

\* C27: a message is marked read only if a booking-link reply for it was
\* sent or it needed no action; a message whose processing ended in an error
\* keeps its UNREAD label and is listed again by the next pass.
C27_ReadOnlyAfterReplyOrNoAction ==
    [][\A id \in MailIds :
          /\ (mail.inbox[id].unread /\ ~ mail'.inbox[id].unread) =>
                \/ mail'.replies[id] >= 1
                \/ mail'.outcome[id] = "no_action"
          /\ (mail.pc = "loop" /\ mail.new_emails # << >>
              /\ Head(mail.new_emails) = id /\ mail'.outcome[id] = "error") =>
                /\ mail'.inbox[id].unread
                /\ mail'.replies[id] = 0
          /\ (mail.pc = "idle" /\ mail'.listed /\ mail'.passes = mail.passes + 1
              /\ mail.outcome[id] = "error") =>
                \E i \in 1..Len(mail'.new_emails) : mail'.new_emails[i] = id
      ]_vars

\* The second pass has listed again a message whose processing ended in an
\* error in the first, while another message was answered and marked read
C27_Witness ==
    /\ mail.passes = 2
    /\ mail.pc = "loop"
    /\ \E id, other \in MailIds :
          /\ mail.outcome[id] = "error"
          /\ mail.inbox[id].unread
          /\ \E i \in 1..Len(mail.new_emails) : mail.new_emails[i] = id
          /\ mail.outcome[other] = "sent_link"
          /\ ~ mail.inbox[other].unread

(***************************************************************************)
(* Property of the direct booking page (SpecDirect)                        *)
(***************************************************************************)
\* C30: a submission with name and email filled in and the terms accepted,
\* for a slot the calendar accepts, creates an event for the selected slot
\* that ends at the slot's end, and reports success.
C30_DirectBookingCreatesEvent ==
    (/\ direct.pc = "submitted"
     /\ direct.name # "" /\ direct.email # "" /\ direct.agree
     /\ direct.calendar_accepts) =>
        /\ direct.display = DIRECT_SUCCESS
        /\ \E event \in BagToSet(calendar) :
              /\ event.attendee = "direct"
              /\ event.start = fromisoformat(direct.slot[1].start)
              /\ event.end = fromisoformat(direct.slot[1].end)

====
